---------------------------- MODULE Spec2Model ----------------------------
(***************************************************************************)
(* A model of src/chimera.py: the ResonanceEngine worker thread (the       *)
(* pipeline BOOTSTRAP .. ACTIVE and its iteration/threshold loop), the     *)
(* hash-chain generator it drives (StateEvaluator, QMixerNetwork,          *)
(* EWCFisherMatrix), and the Tk consumer (start_process, process_queue,    *)
(* update_dashboard) that polls the queue the worker fills.                *)
(*                                                                         *)
(* Abstractions.  hashlib.sha256 is a deterministic fold over a byte       *)
(* string into a digest of DigestLen digits in base HexBase (the source    *)
(* has 64 hex digits); the slices of the hex digest the source takes       *)
(* ([:8], [:16], [24:28]) keep their relative position.  The 1024-byte     *)
(* model window is WindowLen bytes.  Floats are exact rationals [n, d].    *)
(* Byte strings are sequences of naturals.                                 *)
(***************************************************************************)
EXTENDS Integers, Sequences, FiniteSets, TLC

(***************************************************************************)
(* Bounds of the model                                                     *)
(***************************************************************************)
\* number of start_process calls explored
MaxRuns == 2
\* digits in a digest (64 in the source)
DigestLen == 3
\* bytes in the model window (1024 in the source, line 161/164)
WindowLen == 5
\* the largest max_iterations the configurations offer
MaxIter == 12

(***************************************************************************)
(* Program constants                                                       *)
(***************************************************************************)
\* deque(maxlen=10)
ReplayCapacity == 10
\* range(5) in evaluate, num_agents=5
NumAgents == 5
\* i % 15 == 0: the visualization period
HelixPeriod == 15

(***************************************************************************)
(* Sequences and Python's integer and slice semantics                      *)
(***************************************************************************)
Range(s) == {s[i] : i \in DOMAIN s}

Min(a, b) == IF a < b THEN a ELSE b

Max(a, b) == IF a > b THEN a ELSE b

RECURSIVE Pow(_, _)
Pow(b, e) == IF e = 0 THEN 1 ELSE b * Pow(b, e - 1)

\* Python's a % m for m # 0: the result has the sign of m.
PyMod(a, m) == IF m > 0 THEN a % m ELSE -((-a) % (-m))

\* Python's s[lo:hi] where lo, hi count from 0 and may be negative or out of range.
PySlice(s, lo, hi) ==
    LET n  == Len(s)
        l0 == IF lo < 0 THEN Max(lo + n, 0) ELSE Min(lo, n)
        h0 == IF hi < 0 THEN Max(hi + n, 0) ELSE Min(hi, n)
    IN  IF l0 >= h0 THEN << >> ELSE SubSeq(s, l0 + 1, h0)

RECURSIVE SumSeq(_)
SumSeq(s) == IF s = << >> THEN 0 ELSE Head(s) + SumSeq(Tail(s))

RECURSIVE Flatten(_)
Flatten(ss) == IF ss = << >> THEN << >> ELSE Head(ss) \o Flatten(Tail(ss))

(***************************************************************************)
(* Exact rationals standing for the source's floats                        *)
(***************************************************************************)
RECURSIVE GCD(_, _)
GCD(a, b) == IF b = 0 THEN a ELSE GCD(b, a % b)

Abs(x) == IF x < 0 THEN -x ELSE x

Rat(n, d) ==
    LET g == GCD(Abs(n), d) IN [n |-> n \div g, d |-> d \div g]

RAdd(x, y) == Rat(x.n * y.d + y.n * x.d, x.d * y.d)

RSub(x, y) == Rat(x.n * y.d - y.n * x.d, x.d * y.d)

RMul(x, y) == Rat(x.n * y.n, x.d * y.d)

RAbs(x) == [n |-> Abs(x.n), d |-> x.d]

RLess(x, y) == x.n * y.d < y.n * x.d

RECURSIVE RSum(_)
RSum(s) == IF s = << >> THEN Rat(0, 1) ELSE RAdd(Head(s), RSum(Tail(s)))

\* f"{x:.3f}" / f"{x:.4f}": x rounded to k decimals, as an integer count of 10^-k
FormatFixed(x, k) == (2 * x.n * Pow(10, k) + x.d) \div (2 * x.d)

(***************************************************************************)
(* hashlib.sha256 and the hex encoding                                     *)
(***************************************************************************)
\* the base of a digest digit (16 in the source)
HexBase == 4

DigestSpace == Pow(HexBase, DigestLen)

\* absorbing one byte b takes the digest state h to (h * 37 + b + 11) % DigestSpace,
\* so absorbing the bytes at lo..hi in turn takes h to (mul * h + add) % DigestSpace;
\* the span's mul and add are computed by halves, the first half absorbed first
RECURSIVE Absorb(_, _, _)
Absorb(bytes, lo, hi) ==
    IF lo = hi
    THEN [mul |-> 37 % DigestSpace, add |-> (bytes[lo] + 11) % DigestSpace]
    ELSE LET mid    == (lo + hi) \div 2
             first  == Absorb(bytes, lo, mid)
             second == Absorb(bytes, mid + 1, hi)
         IN  [mul |-> (first.mul * second.mul) % DigestSpace,
              add |-> (second.mul * first.add + second.add) % DigestSpace]

\* the digest state h after every byte of bytes, first to last
Fold(h, bytes) ==
    IF bytes = << >> THEN h
    ELSE LET all == Absorb(bytes, 1, Len(bytes))
         IN  (all.mul * h + all.add) % DigestSpace

\* the digits of v, most significant first, k of them
RECURSIVE Digits(_, _)
Digits(v, k) == IF k = 0 THEN << >> ELSE Append(Digits(v \div HexBase, k - 1), v % HexBase)

\* hashlib.sha256(bytes).digest(): the raw digest
Sha256(bytes) == Digits(Fold(7, bytes), DigestLen)

\* bytes.hex(): each digit as its character ('0' is 48)
Hex(raw) == [i \in DOMAIN raw |-> 48 + raw[i]]

\* hashlib.sha256(bytes).hexdigest()
Sha256Hex(bytes) == Hex(Sha256(bytes))

\* int(chars, 16)
RECURSIVE IntOfHex(_)
IntOfHex(chars) ==
    IF chars = << >> THEN 0
    ELSE IntOfHex(SubSeq(chars, 1, Len(chars) - 1)) * HexBase + (chars[Len(chars)] - 48)

\* str(i).encode() for a small natural i
RECURSIVE StrOfInt(_)
StrOfInt(i) == IF i < 10 THEN <<48 + i>> ELSE Append(StrOfInt(i \div 10), 48 + (i % 10))

\* the source's h[:8], scaled to the digest: its first digit
Prefix8(hexs) == PySlice(hexs, 0, 1)

\* the source's state_hash[:16]: twice the length of Prefix8
Prefix16(hexs) == PySlice(hexs, 0, 2)

\* the source's state_hash[24:28]: digits after the first sixteen
Slice24to28(hexs) == PySlice(hexs, 2, 3)

\* 0xFFFFFFFF: the largest value of Prefix8
PrefixMax == HexBase - 1

\* int(h[:8], 16) / 0xFFFFFFFF
UnitOfHash(hexs) == Rat(IntOfHex(Prefix8(hexs)), PrefixMax)

(***************************************************************************)
(* SymbolicProcessor.load_lexicon: the vectors dict and vector_names       *)
(***************************************************************************)
\* self.vectors after the loop: one <<name, hexdigest>> per distinct name, in
\* order of first insertion (a dict keeps one entry per key)
RECURSIVE LexiconVectors(_)
LexiconVectors(symbols) ==
    IF symbols = << >> THEN << >>
    ELSE LET n    == Len(symbols)
             rest == LexiconVectors(SubSeq(symbols, 1, n - 1))
             name == symbols[n]
         IN  IF \E j \in DOMAIN rest : rest[j][1] = name
             THEN rest
             ELSE Append(rest, <<name, Sha256Hex(name)>>)

\* self.vector_names: every name appended, duplicates kept
LexiconNames(symbols) == symbols

\* str(vectors).encode(): "{'name': 'digest', ...}"
VectorsStr(vectors) ==
    <<123>> \o Flatten([j \in DOMAIN vectors |->
                          <<39>> \o vectors[j][1] \o <<39, 58, 39>> \o vectors[j][2] \o <<39, 44>>])
            \o <<125>>

(***************************************************************************)
(* StateEvaluator                                                          *)
(***************************************************************************)
\* PrimeLoop, hashing seed + current_hash instead of current_hash + seed
RECURSIVE PrimeLoopSeedFirst(_, _, _)
PrimeLoopSeedFirst(current_hash, seed, left) ==
    IF left <= 0 THEN current_hash
    ELSE PrimeLoopSeedFirst(Sha256(seed \o current_hash), seed, left - 1)

\* the loop of prime: `left` more rounds of sha256(current_hash + seed)
RECURSIVE PrimeLoop(_, _, _)
PrimeLoop(current_hash, seed, left) ==
    IF left <= 0 THEN current_hash
    ELSE PrimeLoop(Sha256(current_hash \o seed), seed, left - 1)

\* StateEvaluator.prime: the hex of the chained digest
Prime(seed, complexity) == Hex(PrimeLoop(Sha256(seed), seed, complexity))

\* the modulus of evaluate's read index; 0 raises ZeroDivisionError
EvaluateModulus(model_data) == Len(model_data) - WindowLen

EvaluateRaises(model_data) == EvaluateModulus(model_data) = 0

\* model_read_index = int(state_hash[:16], 16) % (self.model_size - 1024)
ModelReadIndex(state_hash, model_data) ==
    PyMod(IntOfHex(Prefix16(state_hash)), EvaluateModulus(model_data))

\* model_slice = self.model_data[model_read_index : model_read_index + 1024]
ModelSlice(state_hash, model_data) ==
    LET idx == ModelReadIndex(state_hash, model_data)
    IN  PySlice(model_data, idx, idx + WindowLen)

\* the width of one agent's part of the window (200 of 1024 in the source)
AgentSliceLen == WindowLen \div NumAgents

\* StateEvaluator.evaluate, when it does not raise
Evaluate(state_hash, vectors_str, model_data) ==
    LET model_slice == ModelSlice(state_hash, model_data)
        next_hash   == Sha256Hex(state_hash \o vectors_str \o model_slice)
        agent_q     == [k \in 1..NumAgents |->
                          LET i == k - 1
                              agent_input == next_hash \o <<95>> \o StrOfInt(i)
                                  \o PySlice(model_slice, i * AgentSliceLen, (i + 1) * AgentSliceLen)
                          IN  UnitOfHash(Sha256Hex(agent_input))]
    IN  [next_hash |-> next_hash, agent_q_values |-> agent_q]

(***************************************************************************)
(* QMixerNetwork                                                           *)
(***************************************************************************)
\* self.mixing_weights = [1.0 / num_agents] * num_agents
MixingWeights(num_agents) == [k \in 1..num_agents |-> Rat(1, num_agents)]

\* str(agent_q_values).encode()
StrOfValues(values) ==
    <<91>> \o Flatten([k \in DOMAIN values |-> <<values[k].n, 47, values[k].d, 44>>]) \o <<93>>

\* MixNoise, without the factor 0.1
MixNoiseUnscaled(agent_q_values) ==
    RSub(UnitOfHash(Sha256Hex(StrOfValues(agent_q_values))), Rat(1, 2))

\* the noise term of mix_q_values
MixNoise(agent_q_values) ==
    RMul(RSub(UnitOfHash(Sha256Hex(StrOfValues(agent_q_values))), Rat(1, 2)), Rat(1, 10))

\* QMixerNetwork.mix_q_values
MixQValues(agent_q_values, mixing_weights) ==
    LET n == Min(Len(agent_q_values), Len(mixing_weights))
        total_q == RSum([k \in 1..n |-> RMul(agent_q_values[k], mixing_weights[k])])
    IN  RAdd(total_q, MixNoise(agent_q_values))

(***************************************************************************)
(* EWCFisherMatrix                                                         *)
(***************************************************************************)
\* self.fisher_diagonal after the loop of compute_fisher_diagonal
FisherDiagonal(state_hash, num_params) ==
    [k \in 1..num_params |-> UnitOfHash(Sha256Hex(state_hash \o <<95>> \o StrOfInt(k - 1)))]

\* sum(...) / self.num_params raises ZeroDivisionError for no parameters
FisherRaises(num_params) == num_params = 0

\* the value compute_fisher_diagonal returns, when it does not raise
ComputeFisherDiagonal(state_hash, num_params) ==
    RMul(RSum(FisherDiagonal(state_hash, num_params)), Rat(1, num_params))

(***************************************************************************)
(* The environment: the files beside the program and config.ini.  They     *)
(* are read-only inputs, fixed for a behaviour.                            *)
(***************************************************************************)
\* the largest complexity_factor the configurations offer
MaxComplexity == 2

ConfigKeys == {"complexity_factor", "max_iterations", "coherence_min", "volatility_max",
               "update_rate_ms"}

Seeds == {<<116>>, <<116, 101>>}

Lexicons == {<< >>, << <<97>> >>, << <<97>>, <<98>> >>, << <<97>>, <<97>> >>}

\* a blob of `len` bytes
Blob(len) == [i \in 1..len |-> (i * i + 3) % 7]

BlobLengths == {WindowLen - 2, WindowLen, WindowLen + 1, WindowLen + 3}

IterationCaps == {0, 1, 3}

CoherenceFloors == {Rat(0, 1), Rat(1, 2), Rat(11, 10)}

VolatilityCeilings == {Rat(1, 6), Rat(2, 1)}

BaseConfig ==
    [present |-> TRUE, bad |-> {}, complexity_factor |-> 1, max_iterations |-> 3,
     coherence_min |-> Rat(0, 1), volatility_max |-> Rat(2, 1)]

BaseEnv ==
    [nvidia_smi   |-> FALSE,
     seed_file    |-> [status |-> "ok", seed |-> <<116>>],
     lexicon_file |-> [status |-> "ok", symbols |-> << <<97>>, <<98>> >>],
     model_file   |-> [status |-> "ok", data |-> Blob(WindowLen + 3)],
     config       |-> BaseConfig]

\* the healthy environments: every file present and well formed, every key valid
HealthyEnvs ==
    {[BaseEnv EXCEPT !.seed_file.seed = sd, !.config.complexity_factor = cf,
                     !.config.max_iterations = mi, !.config.coherence_min = cm,
                     !.config.volatility_max = vm] :
        sd \in Seeds, cf \in {0, MaxComplexity}, mi \in IterationCaps,
        cm \in CoherenceFloors, vm \in VolatilityCeilings}
    \cup {[BaseEnv EXCEPT !.seed_file.seed = sd, !.config.complexity_factor = cf,
                          !.nvidia_smi = gpu] :
            sd \in Seeds, cf \in 0..MaxComplexity, gpu \in BOOLEAN}

\* the lexicon and the blob vary, with every coherence floor
DataEnvs ==
    {[BaseEnv EXCEPT !.lexicon_file.symbols = lx, !.model_file.data = Blob(bl),
                     !.config.coherence_min = cm, !.config.max_iterations = mi] :
        lx \in Lexicons, bl \in BlobLengths, cm \in CoherenceFloors, mi \in {1, 3}}

\* a required file is missing or malformed
FileFaultEnvs ==
    {[BaseEnv EXCEPT !.seed_file.status = st] : st \in {"missing", "undecodable"}}
    \cup {[BaseEnv EXCEPT !.lexicon_file.status = st] :
            st \in {"missing", "bad_base64", "bad_json", "no_name"}}
    \cup {[BaseEnv EXCEPT !.model_file.status = st] : st \in {"missing", "unreadable"}}

\* config.ini is missing, or one key is missing or does not parse
ConfigFaultEnvs ==
    {[BaseEnv EXCEPT !.config.present = FALSE]}
    \cup {[BaseEnv EXCEPT !.config.bad = {k}, !.config.coherence_min = cm] :
            k \in ConfigKeys, cm \in {Rat(0, 1), Rat(11, 10)}}

\* the runs long enough to fill the replay buffer and evict from it
LongEnvs ==
    {[BaseEnv EXCEPT !.config.max_iterations = MaxIter, !.config.complexity_factor = cf] :
        cf \in {0, 1}}

\* two required files are missing or malformed at once
DoubleFaultEnvs ==
    {[BaseEnv EXCEPT !.model_file.status = "missing", !.lexicon_file.status = st] :
        st \in {"missing", "bad_json"}}
    \cup {[BaseEnv EXCEPT !.lexicon_file.status = "bad_base64", !.seed_file.status = "missing"]}

Environments ==
    HealthyEnvs \cup LongEnvs \cup DataEnvs \cup FileFaultEnvs \cup DoubleFaultEnvs
        \cup ConfigFaultEnvs

VARIABLES
    env,        \* the files and the configuration
    engines,    \* the ResonanceEngine objects created so far, in order
    queue,      \* ChimeraInterface.queue: the messages not yet taken
    display,    \* the widgets: log area, labels, list box, button
    timers,     \* pending self.after(..., self.process_queue) callbacks
    enqueued,   \* history: every message put, with the run that put it
    taken,      \* history: the number of messages process_queue has taken
    last_exit   \* history: how the last call of process_queue ended

vars == <<env, engines, queue, display, timers, enqueued, taken, last_exit>>

(***************************************************************************)
(* ConfigManager                                                           *)
(***************************************************************************)
\* ConfigManager.__init__ raises FileNotFoundError without config.ini
ConfigManagerRaises == ~env.config.present

\* ConfigManager.get raises when the key is missing or type_() rejects it
GetRaises(key) == key \in env.config.bad

(***************************************************************************)
(* State and the messages the worker puts                                  *)
(***************************************************************************)
StateOrder == <<"IDLE", "BOOTSTRAP", "KERNEL_INIT", "PRIMING", "ACTIVE", "CRITICAL">>

StateValue(s) == CHOOSE k \in DOMAIN StateOrder : StateOrder[k] = s

\* self.logger: self.queue.put(("log", msg))
Log(text, reason, arg) ==
    [type |-> "log", data |-> [text |-> text, reason |-> reason, arg |-> arg]]

\* set_state: the message it puts
SetStateMsg(new_state) == [type |-> "dashboard_update", data |-> [state |-> new_state]]

FinishedMsg == [type |-> "finished", data |-> "None"]

\* HandleFailureMsgs, as if the fatal log named the same reason for every failure
HandleFailureMsgsGeneric(reason) ==
    <<SetStateMsg("CRITICAL"),
      Log("[FATAL] COGNITIVE BRIDGE COLLAPSED. REASON:", "UnhandledException", << >>),
      FinishedMsg>>

\* HandleFailureMsgs, as if handle_failure did not put ("finished", None)
HandleFailureMsgsNoFinished(reason) ==
    <<SetStateMsg("CRITICAL"),
      Log("[FATAL] COGNITIVE BRIDGE COLLAPSED. REASON:", reason, << >>)>>

\* HandleFailureMsgs, as if handle_failure ran a second time for the same failure
HandleFailureMsgsTwice(reason) ==
    <<SetStateMsg("CRITICAL"),
      Log("[FATAL] COGNITIVE BRIDGE COLLAPSED. REASON:", reason, << >>),
      FinishedMsg,
      SetStateMsg("CRITICAL"),
      Log("[FATAL] COGNITIVE BRIDGE COLLAPSED. REASON:", reason, << >>),
      FinishedMsg>>

\* handle_failure: set_state(CRITICAL), the fatal log, ("finished", None)
HandleFailureMsgs(reason) ==
    <<SetStateMsg("CRITICAL"),
      Log("[FATAL] COGNITIVE BRIDGE COLLAPSED. REASON:", reason, << >>),
      FinishedMsg>>

\* PanicMsgs, as if the except clause logged the panic and did not call handle_failure
PanicMsgsLogOnly(exc) == <<Log("[CRITICAL KERNEL PANIC]", exc, << >>)>>

\* the except clause of run: the panic log, then handle_failure
PanicMsgs(exc) ==
    <<Log("[CRITICAL KERNEL PANIC]", exc, << >>)>> \o HandleFailureMsgs("UnhandledException")

(***************************************************************************)
(* ResonanceEngine: the worker thread                                      *)
(***************************************************************************)
\* ResonanceEngine.__init__, and the locals of run before they are assigned
NewEngine ==
    [pc |-> "start", state |-> "IDLE", replay_buffer |-> << >>,
     gpu_available |-> FALSE, state_hash |-> << >>, max_iter |-> 0, i |-> 0,
     fisher_diagonal |-> << >>,
     \* history: the reason handed to handle_failure, the calls of evaluate,
     \* and what each completed iteration computed
     reason |-> "", evals |-> 0, hist |-> << >>]

\* WorkerDisplay, as if the engine were handed ChimeraInterface.log as its logger
WorkerDisplayLogsDirectly(d, msgs) ==
    LET logs == SelectSeq(msgs, LAMBDA m : m.type = "log")
    IN  [d EXCEPT !.log_area = @ \o [k \in DOMAIN logs |-> logs[k].data]]

\* the worker only puts messages: the logger is lambda msg: self.queue.put(("log", msg))
WorkerDisplay(d, msgs) == d

\* one step of worker r: its object becomes e2 and it puts msgs, in order
WorkerStep(r, e2, msgs) ==
    /\ engines' = [engines EXCEPT ![r] = e2]
    /\ queue' = queue \o msgs
    /\ enqueued' = enqueued \o [k \in 1..Len(msgs) |-> [run |-> r, msg |-> msgs[k]]]
    /\ display' = WorkerDisplay(display, msgs)
    /\ UNCHANGED <<env, timers, taken, last_exit>>

\* Failed, as if handle_failure reset the engine to IDLE
FailedResets(e, reason) == [e EXCEPT !.state = "IDLE", !.pc = "done", !.reason = reason]

\* Failed, as if run went on after handle_failure (the return left out)
FailedContinues(e, reason) == [e EXCEPT !.state = "CRITICAL", !.reason = reason]

\* handle_failure(reason): the object afterwards
Failed(e, reason) == [e EXCEPT !.state = "CRITICAL", !.pc = "done", !.reason = reason]

\* run, lines 200-202: set_state(BOOTSTRAP), the first log, sleep
RunBootstrap(r) ==
    LET e == engines[r] IN
    /\ e.pc = "start"
    /\ WorkerStep(r, [e EXCEPT !.state = "BOOTSTRAP", !.pc = "kernel_init"],
                  <<SetStateMsg("BOOTSTRAP"), Log("Resonance Engine thread started.", "", << >>)>>)

\* HardwareAbstractionLayer.probe_gpu: what it logs for either outcome
ProbeGpuMsgs(found) ==
    <<Log("[HAL] Probing for compatible CUDA device...", "", << >>)>>
    \o (IF found
        THEN <<Log("  > NVIDIA SMI detected. CUDA acceleration is available.", "", << >>)>>
        ELSE <<Log("  > No compatible CUDA device found or nvidia-smi not in PATH.", "", << >>),
               Log("  > Reverting to CPU-bound legacy routines.", "", << >>)>>)

\* run, lines 204-205: set_state(KERNEL_INIT) and the hardware probe
RunKernelInit(r) ==
    LET e == engines[r] IN
    /\ e.pc = "kernel_init"
    /\ WorkerStep(r, [e EXCEPT !.state = "KERNEL_INIT", !.pc = "load",
                               !.gpu_available = env.nvidia_smi],
                  <<SetStateMsg("KERNEL_INIT")>> \o ProbeGpuMsgs(env.nvidia_smi))

\* LoadModelOk, as if load_model returned True whether or not it read the file
LoadModelOkAlways == TRUE

\* ModelLoader.load_model: whether it returns True
LoadModelOk == env.model_file.status = "ok"

LoadModelMsgs ==
    <<Log("[LOADER] Attempting to load cognitive core from", "", << >>)>>
    \o (CASE env.model_file.status = "ok" ->
               <<Log("  > Success. model loaded into memory.", "", <<Len(env.model_file.data)>>)>>
          [] env.model_file.status = "missing" ->
               <<Log("[FATAL] Cognitive model not found.", "", << >>),
                 Log("  > Please run 'create_model.py' to generate the core file.", "", << >>)>>
          [] OTHER ->
               <<Log("[FATAL] Failed to read model file:", "", << >>)>>)

\* model.model_data once load_model returned True
ModelData == env.model_file.data

\* LoadLexiconOk, as if only a missing file made load_lexicon return False
LoadLexiconOkUnlessMissing == env.lexicon_file.status # "missing"

\* SymbolicProcessor.load_lexicon: whether it returns True
LoadLexiconOk == env.lexicon_file.status = "ok"

\* lexicon.vectors and lexicon.vector_names once load_lexicon returned True
Vectors == LexiconVectors(env.lexicon_file.symbols)

VectorNames == LexiconNames(env.lexicon_file.symbols)

LoadLexiconMsgs ==
    <<Log("[LEXICON] Loading from symbology_matrix.dat...", "", << >>)>>
    \o (IF LoadLexiconOk
        THEN <<Log("  > symbolic vectors loaded.", "", <<Len(Vectors)>>)>>
        ELSE <<Log("[ERROR] Failed to parse lexicon:", env.lexicon_file.status, << >>)>>)

\* EWCFisherMatrix.__init__, QMixerNetwork.__init__ and line 214: their logs
InitSubsystemsMsgs(use_gpu) ==
    <<IF use_gpu THEN Log("[EWC] Fisher Matrix initialized in CUDA mode.", "", << >>)
                 ELSE Log("[EWC] Fisher Matrix initialized in CPU-bound legacy mode.", "", << >>),
      Log("[QMIX] Mixer initialized for agents.", "", <<NumAgents>>)>>

\* run, lines 206-215: the loaders and the construction of the subsystems
RunLoadSubsystems(r) ==
    LET e == engines[r] IN
    /\ e.pc = "load"
    /\ IF ~LoadModelOk
       THEN WorkerStep(r, Failed(e, "CognitiveCoreMissing"),
                       LoadModelMsgs \o HandleFailureMsgs("CognitiveCoreMissing"))
       ELSE IF ~LoadLexiconOk
       THEN WorkerStep(r, Failed(e, "LexiconInitializationError"),
                       LoadModelMsgs \o LoadLexiconMsgs
                           \o HandleFailureMsgs("LexiconInitializationError"))
       ELSE IF GetRaises("complexity_factor")
       THEN WorkerStep(r, Failed(e, "UnhandledException"),
                       LoadModelMsgs \o LoadLexiconMsgs \o InitSubsystemsMsgs(e.gpu_available)
                           \o PanicMsgs("complexity_factor"))
       ELSE WorkerStep(r, [e EXCEPT !.pc = "enter_priming",
                                    !.fisher_diagonal = [k \in 1..Len(Vectors) |-> Rat(0, 1)]],
                       LoadModelMsgs \o LoadLexiconMsgs \o InitSubsystemsMsgs(e.gpu_available)
                           \o <<Log("All cognitive subsystems initialized.", "", << >>)>>)

\* run, line 217: set_state(PRIMING)
RunEnterPriming(r) ==
    LET e == engines[r] IN
    /\ e.pc = "enter_priming"
    /\ WorkerStep(r, [e EXCEPT !.state = "PRIMING", !.pc = "prime"], <<SetStateMsg("PRIMING")>>)

\* RunPrime, as if the run's ordinal were appended to the seed before priming
RunPrimeSalted(r) ==
    LET e == engines[r] IN
    /\ e.pc = "prime"
    /\ CASE env.seed_file.status = "missing" ->
              WorkerStep(r, Failed(e, "MissingSeedError"), HandleFailureMsgs("MissingSeedError"))
         [] env.seed_file.status = "undecodable" ->
              WorkerStep(r, Failed(e, "UnhandledException"), PanicMsgs("seed"))
         [] OTHER ->
              LET state_hash == Prime(env.seed_file.seed \o <<r>>, env.config.complexity_factor) IN
              WorkerStep(r, [e EXCEPT !.pc = "enter_active", !.state_hash = state_hash],
                         <<Log("Initiation log found. Using as priming seed.", "", << >>),
                           Log("Priming cognitive manifold...", "", << >>),
                           Log("Manifold primed. Initial state hash:", "", Prefix16(state_hash))>>)

\* run, lines 219-227: the seed file and StateEvaluator.prime
RunPrime(r) ==
    LET e == engines[r] IN
    /\ e.pc = "prime"
    /\ CASE env.seed_file.status = "missing" ->
              WorkerStep(r, Failed(e, "MissingSeedError"), HandleFailureMsgs("MissingSeedError"))
         [] env.seed_file.status = "undecodable" ->
              WorkerStep(r, Failed(e, "UnhandledException"), PanicMsgs("seed"))
         [] OTHER ->
              LET state_hash == Prime(env.seed_file.seed, env.config.complexity_factor) IN
              WorkerStep(r, [e EXCEPT !.pc = "enter_active", !.state_hash = state_hash],
                         <<Log("Initiation log found. Using as priming seed.", "", << >>),
                           Log("Priming cognitive manifold...", "", << >>),
                           Log("Manifold primed. Initial state hash:", "", Prefix16(state_hash))>>)

\* run, line 229: set_state(ACTIVE)
RunEnterActive(r) ==
    LET e == engines[r] IN
    /\ e.pc = "enter_active"
    /\ WorkerStep(r, [e EXCEPT !.state = "ACTIVE", !.pc = "max_iter"], <<SetStateMsg("ACTIVE")>>)

\* run, line 230: max_iter = self.config.get(...)
RunReadMaxIter(r) ==
    LET e == engines[r] IN
    /\ e.pc = "max_iter"
    /\ IF GetRaises("max_iterations")
       THEN WorkerStep(r, Failed(e, "UnhandledException"), PanicMsgs("max_iterations"))
       ELSE WorkerStep(r, [e EXCEPT !.pc = "loop", !.max_iter = env.config.max_iterations], << >>)

\* DequeAppend, as if a full buffer refused the new entry
DequeAppendKeepsOldest(buffer, memory) ==
    IF Len(buffer) >= ReplayCapacity THEN buffer ELSE Append(buffer, memory)

\* deque(maxlen=ReplayCapacity).append: the oldest entry leaves a full buffer
DequeAppend(buffer, memory) ==
    IF Len(buffer) >= ReplayCapacity
    THEN Append(Tail(buffer), memory)
    ELSE Append(buffer, memory)

\* Coherence, with the mean added instead of subtracted
CoherenceAdded(fisher_mean) == RAdd(Rat(1, 1), fisher_mean)

\* coherence = 1.0 - fisher_mean
Coherence(fisher_mean) == RSub(Rat(1, 1), fisher_mean)

\* volatility = abs(total_q - 0.5) * 2
Volatility(total_q) == RMul(RAbs(RSub(total_q, Rat(1, 2))), Rat(2, 1))

\* CoherenceBreach, with the comparison the wrong way round
CoherenceBreachInverted(coherence) == RLess(env.config.coherence_min, coherence)

\* line 247: coherence < coherence_min
CoherenceBreach(coherence) == RLess(coherence, env.config.coherence_min)

\* line 249: volatility > volatility_max
VolatilityBreach(volatility) == RLess(env.config.volatility_max, volatility)

\* lines 236-238: the replay entry of an iteration
Memory(state_hash, total_q) ==
    LET action_id == IntOfHex(Slice24to28(state_hash)) % Len(VectorNames)
    IN  <<Prefix8(state_hash), VectorNames[action_id + 1], FormatFixed(total_q, 3)>>

\* lines 240-246: the dashboard update of iteration i (counted from 0) and, every
\* HelixPeriod iterations, the visualization log
IterationMsgs(e, i, coherence, volatility, total_q, buffer) ==
    <<[type |-> "dashboard_update",
       data |-> [state |-> e.state, iter |-> <<i + 1, e.max_iter>>, coh |-> coherence,
                 vol |-> volatility, q_total |-> total_q, buffer |-> buffer]]>>
    \o (IF i % HelixPeriod = 0
        THEN <<Log("[MANIFOLD STATE VISUALIZATION T-]", "", <<i, i \div HelixPeriod>>)>>
        ELSE << >>)

\* the loop continues while i < max_iter (for i in range(max_iter))
LoopContinues(e) == e.i < e.max_iter

\* RunIterate, as if the volatility test came before the coherence test
RunIterateVolatilityFirst(r) ==
    LET e == engines[r] IN
    /\ e.pc = "loop"
    /\ LoopContinues(e)
    /\ IF EvaluateRaises(ModelData)
       THEN WorkerStep(r, Failed([e EXCEPT !.evals = @ + 1], "UnhandledException"),
                       PanicMsgs("evaluate"))
       ELSE
       \E ev \in {Evaluate(e.state_hash, VectorsStr(Vectors), ModelData)} :
       \E total_q \in {MixQValues(ev.agent_q_values, MixingWeights(NumAgents))} :
       LET state_hash == ev.next_hash
           num_params == Len(Vectors)
           e1         == [e EXCEPT !.evals = @ + 1, !.state_hash = state_hash]
       IN
       IF FisherRaises(num_params)
       THEN WorkerStep(r, Failed(e1, "UnhandledException"), PanicMsgs("compute_fisher_diagonal"))
       ELSE
       \E fisher_mean \in {ComputeFisherDiagonal(state_hash, num_params)} :
       LET coherence   == Coherence(fisher_mean)
           volatility  == Volatility(total_q)
           memory      == Memory(state_hash, total_q)
           buffer      == DequeAppend(e.replay_buffer, memory)
           msgs        == IterationMsgs(e, e.i, coherence, volatility, total_q, buffer)
           e2          == [e1 EXCEPT !.fisher_diagonal = FisherDiagonal(state_hash, num_params),
                                     !.replay_buffer = buffer,
                                     !.i = @ + 1,
                                     !.hist = Append(@, [state_hash |-> state_hash,
                                                         agent_q_values |-> ev.agent_q_values,
                                                         coherence |-> coherence,
                                                         volatility |-> volatility,
                                                         memory |-> memory])]
       IN
       IF GetRaises("volatility_max")
       THEN WorkerStep(r, Failed(e2, "UnhandledException"), msgs \o PanicMsgs("volatility_max"))
       ELSE IF VolatilityBreach(volatility)
       THEN WorkerStep(r, Failed(e2, "State Decoherence (Volatility Exceeded)"),
                       msgs \o HandleFailureMsgs("State Decoherence (Volatility Exceeded)"))
       ELSE IF GetRaises("coherence_min")
       THEN WorkerStep(r, Failed(e2, "UnhandledException"), msgs \o PanicMsgs("coherence_min"))
       ELSE IF CoherenceBreach(coherence)
       THEN WorkerStep(r, Failed(e2, "Resonance Cascade (Coherence Collapse)"),
                       msgs \o HandleFailureMsgs("Resonance Cascade (Coherence Collapse)"))
       ELSE WorkerStep(r, e2, msgs)

\* run, lines 231-251: one iteration of the loop, to its sleep or to its failure;
\* what evaluate, mix_q_values and compute_fisher_diagonal return is bound in the
\* order the loop calls them
RunIterate(r) ==
    LET e == engines[r] IN
    /\ e.pc = "loop"
    /\ LoopContinues(e)
    /\ IF EvaluateRaises(ModelData)
       THEN WorkerStep(r, Failed([e EXCEPT !.evals = @ + 1], "UnhandledException"),
                       PanicMsgs("evaluate"))
       ELSE
       \E ev \in {Evaluate(e.state_hash, VectorsStr(Vectors), ModelData)} :
       \E total_q \in {MixQValues(ev.agent_q_values, MixingWeights(NumAgents))} :
       LET state_hash == ev.next_hash
           num_params == Len(Vectors)
           e1         == [e EXCEPT !.evals = @ + 1, !.state_hash = state_hash]
       IN
       IF FisherRaises(num_params)
       THEN WorkerStep(r, Failed(e1, "UnhandledException"), PanicMsgs("compute_fisher_diagonal"))
       ELSE
       \E fisher_mean \in {ComputeFisherDiagonal(state_hash, num_params)} :
       LET coherence   == Coherence(fisher_mean)
           volatility  == Volatility(total_q)
           memory      == Memory(state_hash, total_q)
           buffer      == DequeAppend(e.replay_buffer, memory)
           msgs        == IterationMsgs(e, e.i, coherence, volatility, total_q, buffer)
           e2          == [e1 EXCEPT !.fisher_diagonal = FisherDiagonal(state_hash, num_params),
                                     !.replay_buffer = buffer,
                                     !.i = @ + 1,
                                     !.hist = Append(@, [state_hash |-> state_hash,
                                                         agent_q_values |-> ev.agent_q_values,
                                                         coherence |-> coherence,
                                                         volatility |-> volatility,
                                                         memory |-> memory])]
       IN
       IF GetRaises("coherence_min")
       THEN WorkerStep(r, Failed(e2, "UnhandledException"), msgs \o PanicMsgs("coherence_min"))
       ELSE IF CoherenceBreach(coherence)
       THEN WorkerStep(r, Failed(e2, "Resonance Cascade (Coherence Collapse)"),
                       msgs \o HandleFailureMsgs("Resonance Cascade (Coherence Collapse)"))
       ELSE IF GetRaises("volatility_max")
       THEN WorkerStep(r, Failed(e2, "UnhandledException"), msgs \o PanicMsgs("volatility_max"))
       ELSE IF VolatilityBreach(volatility)
       THEN WorkerStep(r, Failed(e2, "State Decoherence (Volatility Exceeded)"),
                       msgs \o HandleFailureMsgs("State Decoherence (Volatility Exceeded)"))
       ELSE WorkerStep(r, e2, msgs)

\* run, line 252: the loop ran out
RunTimeout(r) ==
    LET e == engines[r] IN
    /\ e.pc = "loop"
    /\ ~LoopContinues(e)
    /\ WorkerStep(r, Failed(e, "Convergence Timeout"), HandleFailureMsgs("Convergence Timeout"))

(***************************************************************************)
(* ChimeraInterface: the GUI thread.  A log line is kept without its       *)
(* timestamp prefix; a label holds the number its text formats.            *)
(***************************************************************************)
\* ChimeraInterface.log: one more line in the log area
GuiLog(d, data) == [d EXCEPT !.log_area = Append(@, data)]

GuiText(text) == [text |-> text, reason |-> "", arg |-> << >>]

\* build_dashboard and the widgets of __init__
InitialWidgets ==
    [log_area |-> << >>,
     status_labels |-> [State |-> "IDLE", Iteration |-> << >>, TotalQ |-> 0,
                        Coherence |-> 0, Volatility |-> 0],
     alert_label |-> "STABILITY: NOMINAL",
     buffer_listbox |-> << >>,
     initiate_button |-> [state |-> "normal", text |-> "INITIATE COGNITIVE BRIDGE"],
     param_text |-> << >>]

\* the except clause of __init__: the error logged, the button disabled
ConfigErrorWidgets(d, what) ==
    [GuiLog(d, GuiText(what)) EXCEPT
        !.initiate_button = [state |-> "disabled", text |-> "CRITICAL CONFIG ERROR"]]

\* ChimeraInterface.__init__, lines 273-277, with display_params
StartupWidgets ==
    IF ConfigManagerRaises
    THEN ConfigErrorWidgets(InitialWidgets, "config.ini is required.")
    ELSE LET ready == GuiLog(GuiLog(InitialWidgets,
                                    GuiText("Chimera Epsilon Interface Initialized.")),
                             GuiText("Ready. Awaiting directive."))
         IN  IF GetRaises("complexity_factor")
             THEN ConfigErrorWidgets(ready, "complexity_factor")
             ELSE IF GetRaises("max_iterations")
             THEN ConfigErrorWidgets(ready, "max_iterations")
             ELSE [ready EXCEPT !.param_text = <<env.config.complexity_factor,
                                                 env.config.max_iterations>>]

\* self.after(self.config.get('Interface', 'update_rate_ms', int), self.process_queue):
\* the argument is evaluated first, so a raising get schedules nothing
Reschedule(t) == IF GetRaises("update_rate_ms") THEN t ELSE t + 1

\* BridgingButton, as if start_process relabelled the button without disabling it
BridgingButtonLeftEnabled == [state |-> "normal", text |-> "BRIDGING..."]

\* start_process, line 292: the button while a run is under way
BridgingButton == [state |-> "disabled", text |-> "BRIDGING..."]

\* start_process: the command of the button, which Tk runs only while it is enabled
StartProcess ==
    /\ display.initiate_button.state = "normal"
    /\ Len(engines) < MaxRuns
    /\ display' = GuiLog([display EXCEPT !.initiate_button = BridgingButton],
                         GuiText("[SEQUENCE START] User initiated cognitive bridge. Locking controls."))
    /\ engines' = Append(engines, NewEngine)
    /\ timers' = Reschedule(timers)
    /\ UNCHANGED <<env, queue, enqueued, taken, last_exit>>

\* the rows update_dashboard inserts: the buffer newest first
BufferRows(buffer) ==
    [k \in 1..Len(buffer) |->
        LET m == buffer[Len(buffer) + 1 - k]
        IN  [t |-> k - 1, s |-> m[1], a |-> PySlice(m[2], 0, 10), r |-> m[3]]]

\* update_dashboard(data): the widgets afterwards, and whether it raised (the get
\* of volatility_max, line 313, after the five labels are set)
UpdateDashboard(d, data) ==
    LET keys == DOMAIN data
        d1 == IF "state" \in keys THEN [d EXCEPT !.status_labels.State = data.state] ELSE d
        d2 == IF "iter" \in keys THEN [d1 EXCEPT !.status_labels.Iteration = data.iter] ELSE d1
        d3 == IF "q_total" \in keys
              THEN [d2 EXCEPT !.status_labels.TotalQ = FormatFixed(data.q_total, 4)] ELSE d2
        d4 == IF "coh" \in keys
              THEN [d3 EXCEPT !.status_labels.Coherence = FormatFixed(data.coh, 4)] ELSE d3
        d5 == IF "vol" \in keys
              THEN [d4 EXCEPT !.status_labels.Volatility = FormatFixed(data.vol, 4)] ELSE d4
        raised == "vol" \in keys /\ GetRaises("volatility_max")
        d6 == IF "vol" \in keys
              THEN [d5 EXCEPT !.alert_label = IF VolatilityBreach(data.vol)
                                              THEN "STABILITY: CRITICAL"
                                              ELSE "STABILITY: NOMINAL"]
              ELSE d5
        d7 == IF "buffer" \in keys
              THEN [d6 EXCEPT !.buffer_listbox = BufferRows(data.buffer)] ELSE d6
    IN  IF raised THEN [display |-> d5, raised |-> TRUE]
                  ELSE [display |-> d7, raised |-> FALSE]

\* process_queue, line 302: the button once "finished" is taken
FinishedButton == [state |-> "normal", text |-> "RE-INITIATE BRIDGE"]

\* process_queue: what follows taking msg: the widgets, and whether the while loop
\* goes on, or the call ends ("finished": the return; "raised": the exception of
\* update_dashboard leaving the loop)
AfterGet(d, msg) ==
    CASE msg.type = "log" -> [display |-> GuiLog(d, msg.data), exit |-> "no"]
      [] msg.type = "dashboard_update" ->
            LET u == UpdateDashboard(d, msg.data)
            IN  [display |-> u.display, exit |-> IF u.raised THEN "raised" ELSE "no"]
      [] msg.type = "finished" ->
            [display |-> [d EXCEPT !.initiate_button = FinishedButton], exit |-> "finished"]
      [] OTHER -> [display |-> d, exit |-> "no"]

\* process_queue: the while loop over the messages q[lo..hi], from widgets d: the
\* widgets afterwards, the number of messages taken, and "no" when the loop went
\* through them all.  The span is evaluated by halves, the second half from the
\* widgets the first half left, which is the loop's order
RECURSIVE DrainSpan(_, _, _, _)
DrainSpan(d, q, lo, hi) ==
    IF lo = hi
    THEN LET after == AfterGet(d, q[lo])
         IN  [display |-> after.display, taken |-> 1, exit |-> after.exit]
    ELSE LET mid  == (lo + hi) \div 2
             left == DrainSpan(d, q, lo, mid)
         IN  IF left.exit # "no"
             THEN left
             ELSE LET right == DrainSpan(left.display, q, mid + 1, hi)
                  IN  [display |-> right.display, taken |-> left.taken + right.taken,
                       exit |-> right.exit]

\* process_queue: the while loop over get_nowait, from widgets d and queue q with
\* n messages taken so far, to queue.Empty, the return or the exception
Drain(d, q, n) ==
    IF q = << >>
    THEN [display |-> d, queue |-> q, n |-> n, exit |-> "empty"]
    ELSE LET res == DrainSpan(d, q, 1, Len(q))
         IN  [display |-> res.display, queue |-> SubSeq(q, res.taken + 1, Len(q)),
              n |-> n + res.taken,
              exit |-> IF res.exit = "no" THEN "empty" ELSE res.exit]

\* process_queue: the timer count when the call ends: the finally clause runs on
\* every way out, the return of "finished" included
TimersAtExit(t, exit) == Reschedule(t)

\* a timer fires and process_queue runs: one tick of the consumer
ProcessQueue ==
    /\ timers > 0
    /\ LET res == Drain(display, queue, 0) IN
          /\ display' = res.display
          /\ queue' = res.queue
          /\ taken' = taken + res.n
          /\ last_exit' = res.exit
          /\ timers' = TimersAtExit(timers - 1, res.exit)
    /\ UNCHANGED <<env, engines, enqueued>>

(***************************************************************************)
(* The specification                                                       *)
(***************************************************************************)
Init ==
    /\ env \in Environments
    /\ engines = << >>
    /\ queue = << >>
    /\ display = StartupWidgets
    /\ timers = 0
    /\ enqueued = << >>
    /\ taken = 0
    /\ last_exit = "none"

Next ==
    \/ StartProcess
    \/ ProcessQueue
    \/ \E r \in DOMAIN engines : RunBootstrap(r)
    \/ \E r \in DOMAIN engines : RunKernelInit(r)
    \/ \E r \in DOMAIN engines : RunLoadSubsystems(r)
    \/ \E r \in DOMAIN engines : RunEnterPriming(r)
    \/ \E r \in DOMAIN engines : RunPrime(r)
    \/ \E r \in DOMAIN engines : RunEnterActive(r)
    \/ \E r \in DOMAIN engines : RunReadMaxIter(r)
    \/ \E r \in DOMAIN engines : RunIterate(r)
    \/ \E r \in DOMAIN engines : RunTimeout(r)

Spec == Init /\ [][Next]_vars

\* a step of a worker thread that computes no digest: run outside prime and the
\* loop body
PipelineNext ==
    \E r \in DOMAIN engines :
        \/ RunBootstrap(r) \/ RunKernelInit(r) \/ RunLoadSubsystems(r)
        \/ RunEnterPriming(r) \/ RunEnterActive(r)
        \/ RunReadMaxIter(r) \/ RunTimeout(r)

\* a step of a worker thread that computes digests: prime, or one iteration
DigestNext == \E r \in DOMAIN engines : RunPrime(r) \/ RunIterate(r)

\* ENABLED <<DigestNext>>_vars: the guards of RunPrime and RunIterate, each of which
\* then has a successor, one that differs in pc
DigestEnabled ==
    \E r \in DOMAIN engines :
        \/ engines[r].pc = "prime"
        \/ engines[r].pc = "loop" /\ LoopContinues(engines[r])

\* a started thread is scheduled again and again: run only computes, sleeps for a
\* fixed time and puts on an unbounded queue, so it is never blocked for ever.
\* The last conjunct is weak fairness of DigestNext, with DigestEnabled for its
\* ENABLED.
FairSpec ==
    /\ Spec
    /\ WF_vars(PipelineNext)
    /\ ([]<>(~DigestEnabled) \/ []<><<DigestNext>>_vars)

(***************************************************************************)
(* What the claims speak of                                                *)
(***************************************************************************)
ReasonCascade == "Resonance Cascade (Coherence Collapse)"

ReasonDecoherence == "State Decoherence (Volatility Exceeded)"

ReasonTimeout == "Convergence Timeout"

ReasonUnhandled == "UnhandledException"

\* the messages run r has put, in order, according to the history enq
RunMsgsIn(enq, r) ==
    LET mine == SelectSeq(enq, LAMBDA x : x.run = r)
    IN  [k \in DOMAIN mine |-> mine[k].msg]

RunMsgs(r) == RunMsgsIn(enqueued, r)

\* the failure reasons reported among msgs, in order
ReportedReasons(msgs) ==
    LET fatal == SelectSeq(msgs,
                           LAMBDA m : m.type = "log" /\ m.data.text = "[FATAL] COGNITIVE BRIDGE COLLAPSED. REASON:")
    IN  [k \in DOMAIN fatal |-> fatal[k].data.reason]

\* the iteration dashboard updates among msgs, in order
IterationUpdates(msgs) ==
    SelectSeq(msgs, LAMBDA m : m.type = "dashboard_update" /\ "iter" \in DOMAIN m.data)

FilesOk ==
    /\ env.seed_file.status = "ok"
    /\ env.lexicon_file.status = "ok"
    /\ env.model_file.status = "ok"

\* an iteration's values breach a threshold
CoherenceBelowFloor(h) == h.coherence.n * env.config.coherence_min.d
                              < env.config.coherence_min.n * h.coherence.d

VolatilityAboveCeiling(h) == h.volatility.n * env.config.volatility_max.d
                                 > env.config.volatility_max.n * h.volatility.d

\* an exception is raised inside the loop
LoopRaises ==
    \/ Len(env.model_file.data) = WindowLen
    \/ env.lexicon_file.symbols = << >>
    \/ "coherence_min" \in env.config.bad
    \/ "volatility_max" \in env.config.bad

(***************************************************************************)
(* C1.  As claimed: every change of an engine's state goes from a state to *)
(* its immediate successor in IDLE, BOOTSTRAP, KERNEL_INIT, PRIMING,       *)
(* ACTIVE, CRITICAL.  Refuted: a failing step goes straight to CRITICAL.   *)
(***************************************************************************)
C1_OnlyImmediateSuccessor ==
    [][\A r \in DOMAIN engines :
          engines'[r].state # engines[r].state
              => StateValue(engines'[r].state) = StateValue(engines[r].state) + 1]_vars

(***************************************************************************)
(* C1, amended.  Every change of an engine's state goes to the immediate   *)
(* successor in that list or, when a step of KERNEL_INIT, PRIMING or       *)
(* ACTIVE fails, straight to CRITICAL; so no state is revisited.  ACTIVE   *)
(* is the only state in which the run loops: a step that stays at the same *)
(* place of run, or executes an iteration, starts in ACTIVE.               *)
(***************************************************************************)
C1_SuccessorOrCritical ==
    [][\A r \in DOMAIN engines :
          LET a == engines[r]
              b == engines'[r]
          IN  /\ a.state # b.state =>
                    /\ StateValue(b.state) > StateValue(a.state)
                    /\ \/ StateValue(b.state) = StateValue(a.state) + 1
                       \/ b.state = "CRITICAL" /\ a.state \in {"KERNEL_INIT", "PRIMING", "ACTIVE"}
              /\ (a # b /\ (a.pc = b.pc \/ a.i # b.i \/ a.evals # b.evals)) => a.state = "ACTIVE"]_vars

\* a run went through every state and looped in ACTIVE
C1_Witness ==
    \E r \in DOMAIN engines :
        /\ engines[r].state = "CRITICAL"
        /\ engines[r].i >= 2
        /\ Len(IterationUpdates(RunMsgs(r))) >= 2

(***************************************************************************)
(* C2.  As claimed: a run leaves ACTIVE only for CRITICAL and only when    *)
(* coherence < coherence_min (reported as the Resonance Cascade), when     *)
(* volatility > volatility_max (the State Decoherence), or when            *)
(* max_iterations iterations completed without a breach (the Convergence   *)
(* Timeout); the three reasons are pairwise distinct.  Refuted: an         *)
(* exception raised in the loop leaves ACTIVE too.                         *)
(***************************************************************************)
C2_LeftFor(a, b, reported) ==
    LET last == b.hist[Len(b.hist)] IN
    \/ /\ reported = <<ReasonCascade>>
       /\ b.hist # << >>
       /\ CoherenceBelowFloor(last)
    \/ /\ reported = <<ReasonDecoherence>>
       /\ b.hist # << >>
       /\ VolatilityAboveCeiling(last)
    \/ /\ reported = <<ReasonTimeout>>
       /\ Len(b.hist) = env.config.max_iterations
       /\ \A k \in DOMAIN b.hist :
              ~CoherenceBelowFloor(b.hist[k]) /\ ~VolatilityAboveCeiling(b.hist[k])

C2_ThreeWaysOut ==
    [][\A r \in DOMAIN engines :
          (engines[r].state = "ACTIVE" /\ engines'[r].state # "ACTIVE")
              => /\ engines'[r].state = "CRITICAL"
                 /\ Cardinality({ReasonCascade, ReasonDecoherence, ReasonTimeout}) = 3
                 /\ C2_LeftFor(engines[r], engines'[r],
                               ReportedReasons(RunMsgsIn(enqueued', r)))]_vars

(***************************************************************************)
(* C2, amended.  A run leaves ACTIVE only for CRITICAL, and only in one of *)
(* four ways, which the reported reason identifies: the three of the claim *)
(* or an exception raised inside the loop (a zero modulus in evaluate, an  *)
(* empty lexicon in compute_fisher_diagonal, a threshold key that cannot   *)
(* be read), reported as UnhandledException.  The four reasons are         *)
(* pairwise distinct.                                                      *)
(***************************************************************************)
C2_FourWaysOut ==
    [][\A r \in DOMAIN engines :
          (engines[r].state = "ACTIVE" /\ engines'[r].state # "ACTIVE")
              => /\ engines'[r].state = "CRITICAL"
                 /\ Cardinality({ReasonCascade, ReasonDecoherence, ReasonTimeout,
                                 ReasonUnhandled}) = 4
                 /\ LET reported == ReportedReasons(RunMsgsIn(enqueued', r))
                    IN  \/ C2_LeftFor(engines[r], engines'[r], reported)
                        \/ reported = <<ReasonUnhandled>> /\ LoopRaises]_vars

\* a run left ACTIVE on a volatility breach, after an iteration without breach
C2_Witness ==
    \E r \in DOMAIN engines :
        /\ engines[r].state = "CRITICAL"
        /\ ReportedReasons(RunMsgs(r)) = <<ReasonDecoherence>>
        /\ Len(engines[r].hist) >= 2

(***************************************************************************)
(* C3.  The first threshold breach is fatal.  If an iteration's values     *)
(* breach a threshold (coherence < coherence_min or volatility >           *)
(* volatility_max) it is the run's last iteration: it is iteration k, the  *)
(* run has called evaluate k times, appended k replay entries and put k    *)
(* iteration dashboard updates, and it is CRITICAL.  A CRITICAL engine     *)
(* never changes again and puts nothing more, so it never returns to       *)
(* ACTIVE; the only new run is a fresh engine, in IDLE at the start of     *)
(* its pipeline.                                                           *)
(***************************************************************************)
C3_Breach(h) ==
    \/ "coherence_min" \notin env.config.bad /\ CoherenceBelowFloor(h)
    \/ "volatility_max" \notin env.config.bad /\ VolatilityAboveCeiling(h)

C3_BreachEndsRun ==
    \A r \in DOMAIN engines :
        LET e == engines[r] IN
        \A k \in DOMAIN e.hist :
            C3_Breach(e.hist[k]) =>
                /\ k = Len(e.hist)
                /\ e.state = "CRITICAL"
                /\ e.i = k
                /\ e.evals = k
                /\ Len(e.replay_buffer) = (IF k < 10 THEN k ELSE 10)
                /\ Len(IterationUpdates(RunMsgs(r))) = k

C3_FirstBreachIsFatal ==
    /\ []C3_BreachEndsRun
    /\ [][\A r \in DOMAIN engines :
             engines[r].state = "CRITICAL"
                 => engines'[r] = engines[r] /\ RunMsgsIn(enqueued', r) = RunMsgs(r)]_vars
    /\ [][Len(engines') # Len(engines)
             => /\ Len(engines') = Len(engines) + 1
                /\ SubSeq(engines', 1, Len(engines)) = engines
                /\ LET fresh == engines'[Len(engines')]
                   IN  /\ fresh.state = "IDLE"
                       /\ fresh.pc = "start"
                       /\ fresh.i = 0 /\ fresh.evals = 0
                       /\ fresh.replay_buffer = << >>]_vars

\* a run breached on its second iteration with a third allowed, and a fresh run
\* was started after it
C3_Witness ==
    /\ Len(engines) = 2
    /\ engines[1].state = "CRITICAL"
    /\ Len(engines[1].hist) = 2
    /\ C3_Breach(engines[1].hist[2])
    /\ env.config.max_iterations >= 3
    /\ engines[2].state = "ACTIVE"

(***************************************************************************)
(* C4.  As claimed: with coherence_min = 1.1 every run (whose files load)  *)
(* fails on iteration 1 with the Resonance Cascade, after exactly one      *)
(* iteration, whatever the lexicon, blob, seed, max_iterations and         *)
(* volatility_max.  Refuted by max_iterations = 0 and by an iteration that *)
(* raises.                                                                 *)
(***************************************************************************)
C4_FloorIsElevenTenths ==
    /\ "coherence_min" \notin env.config.bad
    /\ env.config.coherence_min.n = 11 /\ env.config.coherence_min.d = 10

C4_AlwaysCascadeOnFirst ==
    \A r \in DOMAIN engines :
        (C4_FloorIsElevenTenths /\ FilesOk /\ engines[r].pc = "done")
            => /\ ReportedReasons(RunMsgs(r)) = <<ReasonCascade>>
               /\ engines[r].i = 1
               /\ engines[r].evals = 1

(***************************************************************************)
(* C4, amended.  With coherence_min = 1.1 no run executes more than one    *)
(* iteration, whatever volatility_max is (readable or not).  A run whose   *)
(* files load ends, with max_iterations >= 1, a non-empty lexicon and a    *)
(* blob whose size is not the window's, on iteration 1 with the Resonance  *)
(* Cascade and no other reason; with max_iterations = 0 it executes no     *)
(* iteration and reports the Convergence Timeout; with an empty lexicon or *)
(* a blob of exactly the window's size iteration 1 raises and the run      *)
(* reports UnhandledException.                                             *)
(***************************************************************************)
C4_CascadeOnFirstIfAny ==
    \A r \in DOMAIN engines :
        LET e == engines[r]
            reported == ReportedReasons(RunMsgs(r))
        IN  C4_FloorIsElevenTenths =>
               /\ e.i <= 1
               /\ e.evals <= 1
               /\ (FilesOk /\ e.pc = "done") =>
                     IF env.config.max_iterations = 0
                     THEN reported = <<ReasonTimeout>> /\ e.i = 0 /\ e.evals = 0
                     ELSE IF Len(env.model_file.data) = WindowLen
                             \/ env.lexicon_file.symbols = << >>
                     THEN reported = <<ReasonUnhandled>> /\ e.i = 0 /\ e.evals = 1
                     ELSE reported = <<ReasonCascade>> /\ e.i = 1 /\ e.evals = 1

\* a run allowed three iterations failed on the first, the floor being 1.1
C4_Witness ==
    \E r \in DOMAIN engines :
        /\ C4_FloorIsElevenTenths
        /\ env.config.max_iterations = 3
        /\ engines[r].pc = "done"
        /\ engines[r].i = 1
        /\ ReportedReasons(RunMsgs(r)) = <<ReasonCascade>>

(***************************************************************************)
(* C5.  After k iterations of a run the replay buffer holds exactly        *)
(* min(k, 10) entries, the ones appended by the most recent min(k, 10)     *)
(* iterations, oldest first; and the buffer snapshot in the dashboard      *)
(* update of iteration j is the buffer as it was after iteration j.        *)
(***************************************************************************)
C5_Appended(e) == [k \in DOMAIN e.hist |-> e.hist[k].memory]

C5_MostRecent(appended, k) == SubSeq(appended, IF k > 10 THEN k - 9 ELSE 1, k)

C5_ReplayBufferIsMostRecent ==
    \A r \in DOMAIN engines :
        LET e        == engines[r]
            appended == C5_Appended(e)
            k        == Len(appended)
            updates  == IterationUpdates(RunMsgs(r))
        IN  /\ e.i = k
            /\ Len(e.replay_buffer) = (IF k < 10 THEN k ELSE 10)
            /\ e.replay_buffer = C5_MostRecent(appended, k)
            /\ Len(updates) = k
            /\ \A j \in 1..k :
                   /\ updates[j].data.iter[1] = j
                   /\ updates[j].data.buffer = C5_MostRecent(appended, j)

\* the buffer is full and has evicted its two oldest entries
C5_Witness ==
    \E r \in DOMAIN engines :
        /\ Len(engines[r].hist) = 12
        /\ Len(engines[r].replay_buffer) = 10
        /\ engines[r].replay_buffer[1] = engines[r].hist[3].memory
        /\ engines[r].replay_buffer[1] # engines[r].hist[1].memory

(***************************************************************************)
(* C6.  Determinism.  Two runs on the same inputs produce the same primed  *)
(* digest and the same sequence of state digests and agent values,         *)
(* iteration by iteration (at any moment one run's sequence is a prefix of *)
(* the other's), and once both have ended the same iteration count and the *)
(* same reported reason.                                                   *)
(***************************************************************************)
IsPrefix(a, b) == Len(a) <= Len(b) /\ SubSeq(b, 1, Len(a)) = a

C6_Trace(e) == [k \in DOMAIN e.hist |-> <<e.hist[k].state_hash, e.hist[k].agent_q_values>>]

C6_Primed(e) == e.state_hash # << >> /\ e.evals = 0

RECURSIVE C7_Chain(_, _)
C7_Chain(seed, j) == IF j = 0 THEN Sha256(seed) ELSE Sha256(C7_Chain(seed, j - 1) \o seed)

C7_PrimeIsReferenceChain ==
    \A r \in DOMAIN engines :
        LET e    == engines[r]
            seed == env.seed_file.seed
            cf   == env.config.complexity_factor
        IN  C6_Primed(e) =>
               /\ e.state_hash = Hex(C7_Chain(seed, cf))
               /\ cf = 0 => e.state_hash = Hex(Sha256(seed))
               /\ cf = 1 => e.state_hash = Hex(Sha256(Sha256(seed) \o seed))

\* a run has primed with complexity_factor = 1 and a two-symbol lexicon
C7_Witness ==
    \E r \in DOMAIN engines :
        /\ C6_Primed(engines[r])
        /\ env.config.complexity_factor = 1
        /\ Len(env.lexicon_file.symbols) = 2
        /\ engines[r].state = "ACTIVE"

(***************************************************************************)
(* C8.  At most one worker that has started and has not yet put its        *)
(* "finished" message exists at any moment.                                *)
(***************************************************************************)
C8_Unfinished(r) == \A k \in DOMAIN RunMsgs(r) : RunMsgs(r)[k].type # "finished"

C8_AtMostOneActiveRun ==
    Cardinality({r \in DOMAIN engines : C8_Unfinished(r)}) <= 1

\* a second run is under way, the first having finished
C8_Witness ==
    /\ Len(engines) = 2
    /\ ~C8_Unfinished(1)
    /\ C8_Unfinished(2)
    /\ engines[2].state = "ACTIVE"

(***************************************************************************)
(* C9.  As claimed: a worker step leaves every widget unchanged and only   *)
(* appends "log", "dashboard_update" and "finished" messages to the queue, *)
(* leaving the messages already there (their buffer snapshots included) as *)
(* they were; and the widgets change only in consumer steps that take a    *)
(* message.  Refuted: start_process changes the button and the log area    *)
(* without taking a message.                                               *)
(***************************************************************************)
C9_WorkerStep == engines' # engines /\ Len(engines') = Len(engines)

C9_WorkerOnlyPuts ==
    C9_WorkerStep =>
        /\ display' = display
        /\ IsPrefix(queue, queue')
        /\ IsPrefix(enqueued, enqueued')
        /\ \A k \in DOMAIN queue' :
               queue'[k].type \in {"log", "dashboard_update", "finished"}
        /\ UNCHANGED <<timers, taken>>

\* the queue is what was put and not yet taken, unaltered
C9_QueueIsUntaken ==
    queue = [k \in 1..(Len(enqueued) - taken) |-> enqueued[taken + k].msg]

C9_DisplayOnlyByConsumer ==
    [][/\ C9_WorkerOnlyPuts
       /\ C9_QueueIsUntaken'
       /\ display' # display => taken' > taken]_vars

(***************************************************************************)
(* C9, amended.  A worker step leaves every widget unchanged and only      *)
(* appends messages to the queue, leaving those already there as they      *)
(* were; the widgets change only in steps of the GUI thread: a consumer    *)
(* step that takes a message, or start_process, which changes the button   *)
(* and the log area only.                                                  *)
(***************************************************************************)
C9_DisplayOnlyByGuiThread ==
    [][/\ C9_WorkerOnlyPuts
       /\ C9_QueueIsUntaken'
       /\ display' # display =>
             \/ taken' > taken
             \/ /\ Len(engines') = Len(engines) + 1
                /\ display'.status_labels = display.status_labels
                /\ display'.alert_label = display.alert_label
                /\ display'.buffer_listbox = display.buffer_listbox
                /\ display'.param_text = display.param_text]_vars

\* a snapshot of one entry is still queued while the run's buffer holds three
C9_Witness ==
    \E r \in DOMAIN engines : \E k \in DOMAIN queue :
        /\ queue[k].type = "dashboard_update"
        /\ "buffer" \in DOMAIN queue[k].data
        /\ Len(queue[k].data.buffer) = 1
        /\ Len(engines[r].replay_buffer) = 3
        /\ Len(engines) = 1
        /\ display.status_labels.State = "KERNEL_INIT"

(***************************************************************************)
(* C10.  Each tick of the consumer drains the queue: it takes every        *)
(* message that is in the queue, applies them in the order they were put   *)
(* (the log lines are appended in that order), and leaves no message that  *)
(* was put before the tick.                                                *)
(***************************************************************************)
C10_QueuedLogs ==
    LET logs == SelectSeq(queue, LAMBDA m : m.type = "log")
    IN  [k \in DOMAIN logs |-> logs[k].data]

C10_TickDrainsAll ==
    [][taken' # taken =>
          /\ queue' = << >>
          /\ taken' = Len(enqueued)
          /\ display'.log_area = display.log_area \o C10_QueuedLogs]_vars

(***************************************************************************)
(* C11.  As claimed: each failure category (missing required file,         *)
(* malformed encoded content, coherence collapse, volatility exceeded,     *)
(* iteration cap exceeded, unhandled runtime fault) is terminal for the    *)
(* run and never retried: once the run has failed its engine does nothing  *)
(* more and puts nothing more; and a reason string reported for one        *)
(* category is never reported for another, so that the reason tells the    *)
(* category.  Refuted: a missing and a malformed lexicon report the same   *)
(* string, and a malformed seed reports the string of unhandled faults.    *)
(***************************************************************************)
\* what raised the exception run caught, "" when none was caught
C11_PanicCause(r) ==
    LET panics == SelectSeq(RunMsgs(r),
                            LAMBDA m : m.type = "log" /\ m.data.text = "[CRITICAL KERNEL PANIC]")
    IN  IF panics = << >> THEN "" ELSE panics[1].data.reason

\* the category of the failure that ended run r, by its cause
C11_Category(r) ==
    LET reason == engines[r].reason IN
    CASE reason = "CognitiveCoreMissing" -> "missing_required_file"
      [] reason = "MissingSeedError" -> "missing_required_file"
      [] reason = "LexiconInitializationError" ->
             IF env.lexicon_file.status = "missing"
             THEN "missing_required_file" ELSE "malformed_encoded_content"
      [] reason = ReasonCascade -> "coherence_collapse"
      [] reason = ReasonDecoherence -> "volatility_exceeded"
      [] reason = ReasonTimeout -> "iteration_cap_exceeded"
      [] OTHER -> IF C11_PanicCause(r) = "seed"
                  THEN "malformed_encoded_content" ELSE "unhandled_runtime_fault"

\* the one category a reason string stands for
C11_CategoryOfReason(reason) ==
    CASE reason = "CognitiveCoreMissing" -> "missing_required_file"
      [] reason = "MissingSeedError" -> "missing_required_file"
      [] reason = "LexiconInitializationError" -> "malformed_encoded_content"
      [] reason = ReasonCascade -> "coherence_collapse"
      [] reason = ReasonDecoherence -> "volatility_exceeded"
      [] reason = ReasonTimeout -> "iteration_cap_exceeded"
      [] OTHER -> "unhandled_runtime_fault"

C11_HasFailed(r) == engines[r].reason # ""

C11_TerminalNoRetry ==
    [][\A r \in DOMAIN engines :
          C11_HasFailed(r) =>
              /\ engines'[r] = engines[r]
              /\ RunMsgsIn(enqueued', r) = RunMsgs(r)]_vars

C11_OneReason(r) == ReportedReasons(RunMsgs(r)) = <<engines[r].reason>>

C11_ReasonTellsCategory ==
    \A r \in DOMAIN engines :
        C11_HasFailed(r) =>
            /\ C11_OneReason(r)
            /\ C11_Category(r) = C11_CategoryOfReason(engines[r].reason)

C11_CategoriesOfReason(reason) ==
    CASE reason = "LexiconInitializationError" ->
             {"missing_required_file", "malformed_encoded_content"}
      [] reason = ReasonUnhandled -> {"malformed_encoded_content", "unhandled_runtime_fault"}
      [] OTHER -> {C11_CategoryOfReason(reason)}

C11_ReasonNarrowsCategory ==
    \A r \in DOMAIN engines :
        C11_HasFailed(r) =>
            /\ C11_OneReason(r)
            /\ engines[r].state = "CRITICAL"
            /\ C11_Category(r) \in C11_CategoriesOfReason(engines[r].reason)

C12_ConfigError == ConfigManagerRaises \/ env.config.bad # {}

C12_NoRunFailsOnConfig ==
    \A r \in DOMAIN engines : C11_PanicCause(r) \notin ConfigKeys

C12_ConfigErrorsStopAtStartup ==
    /\ C12_ConfigError =>
          /\ display.initiate_button.state = "disabled"
          /\ engines = << >>
    /\ C12_NoRunFailsOnConfig

(***************************************************************************)
(* C13.  As claimed: if the lexicon file is missing, is not valid base64   *)
(* or does not decode to valid JSON, load_lexicon reports an error and the *)
(* run ends in CRITICAL with reason 'LexiconInitializationError', without  *)
(* ever entering PRIMING or ACTIVE and without any iteration.  Refuted:    *)
(* the model file is loaded first, and when it is missing the run ends     *)
(* with 'CognitiveCoreMissing' before load_lexicon is called.              *)
(***************************************************************************)
C13_LexiconUnusable == env.lexicon_file.status \in {"missing", "bad_base64", "bad_json"}

C13_LexiconErrorLogged(r) ==
    \E k \in DOMAIN RunMsgs(r) :
        /\ RunMsgs(r)[k].type = "log"
        /\ RunMsgs(r)[k].data.text = "[ERROR] Failed to parse lexicon:"

C13_NeverPrimes(r) ==
    /\ engines[r].state \notin {"PRIMING", "ACTIVE"}
    /\ engines[r].evals = 0
    /\ engines[r].hist = << >>
    /\ \A k \in DOMAIN RunMsgs(r) :
           RunMsgs(r)[k].type = "dashboard_update" =>
               /\ "iter" \notin DOMAIN RunMsgs(r)[k].data
               /\ RunMsgs(r)[k].data.state \notin {"PRIMING", "ACTIVE"}

C13_Aborted(r) ==
    engines[r].pc = "done" =>
        /\ engines[r].state = "CRITICAL"
        /\ ReportedReasons(RunMsgs(r)) = <<"LexiconInitializationError">>
        /\ C13_LexiconErrorLogged(r)

C13_LexiconFailureAborts ==
    C13_LexiconUnusable =>
        \A r \in DOMAIN engines : C13_NeverPrimes(r) /\ C13_Aborted(r)

(***************************************************************************)
(* C13, amended.  If the model file was loaded and the lexicon file is     *)
(* missing, is not valid base64 or does not decode to valid JSON, then     *)
(* load_lexicon reports an error and the run ends in CRITICAL with reason  *)
(* 'LexiconInitializationError'; if the model file could not be loaded the *)
(* run ends with 'CognitiveCoreMissing' and load_lexicon reports nothing.  *)
(* Either way the run never enters PRIMING or ACTIVE and executes no       *)
(* iteration.                                                              *)
(***************************************************************************)
C13_LexiconFailureAbortsAfterModel ==
    C13_LexiconUnusable =>
        \A r \in DOMAIN engines :
            /\ C13_NeverPrimes(r)
            /\ LoadModelOk => C13_Aborted(r)
            /\ (~LoadModelOk /\ engines[r].pc = "done") =>
                  /\ engines[r].state = "CRITICAL"
                  /\ ReportedReasons(RunMsgs(r)) = <<"CognitiveCoreMissing">>
                  /\ ~C13_LexiconErrorLogged(r)

\* a run has ended on a lexicon that is not valid JSON, the model loaded
C13_Witness ==
    \E r \in DOMAIN engines :
        /\ env.lexicon_file.status = "bad_json"
        /\ LoadModelOk
        /\ engines[r].pc = "done"
        /\ engines[r].reason = "LexiconInitializationError"
        /\ display.status_labels.State = "CRITICAL"

(***************************************************************************)
(* C14.  As claimed: the blob is optional.  It is loaded into memory if    *)
(* present; when the blob file is absent the run still passes PRIMING and  *)
(* enters ACTIVE, and evaluate computes each next digest with an empty     *)
(* window in place of blob bytes.  Refuted: without the blob the run ends  *)
(* in KERNEL_INIT with 'CognitiveCoreMissing'.                             *)
(***************************************************************************)
C14_Entered(r, state) ==
    \E k \in DOMAIN RunMsgs(r) :
        /\ RunMsgs(r)[k].type = "dashboard_update"
        /\ RunMsgs(r)[k].data.state = state
        /\ "iter" \notin DOMAIN RunMsgs(r)[k].data

C14_Loaded(r) ==
    \E k \in DOMAIN RunMsgs(r) :
        /\ RunMsgs(r)[k].type = "log"
        /\ RunMsgs(r)[k].data.text = "  > Success. model loaded into memory."
        /\ RunMsgs(r)[k].data.arg = <<Len(env.model_file.data)>>

\* the digest evaluate was given in iteration k of run r
C14_PreviousDigest(r, k) ==
    IF k = 1 THEN Prime(env.seed_file.seed, env.config.complexity_factor)
    ELSE engines[r].hist[k - 1].state_hash

C14_BlobOptional ==
    \A r \in DOMAIN engines :
        /\ (LoadModelOk /\ engines[r].pc = "done") => C14_Loaded(r)
        /\ (env.model_file.status = "missing" /\ engines[r].pc = "done") =>
              /\ C14_Entered(r, "PRIMING")
              /\ C14_Entered(r, "ACTIVE")
        /\ env.model_file.status = "missing" =>
              \A k \in DOMAIN engines[r].hist :
                  engines[r].hist[k].state_hash =
                      Sha256Hex(C14_PreviousDigest(r, k) \o VectorsStr(Vectors) \o << >>)

(***************************************************************************)
(* C14, amended.  The blob is required.  When the blob file is present and *)
(* readable it is loaded into memory before the lexicon, and evaluate      *)
(* computes each next digest from the previous digest, the serialized      *)
(* lexicon and the window it slices from the blob; when the file is absent *)
(* or unreadable the run ends in CRITICAL with 'CognitiveCoreMissing'      *)
(* without entering PRIMING or ACTIVE and without any iteration.           *)
(***************************************************************************)
C14_BlobRequired ==
    \A r \in DOMAIN engines :
        /\ (LoadModelOk /\ engines[r].pc \notin {"start", "kernel_init", "load"}) => C14_Loaded(r)
        /\ LoadModelOk =>
              \A k \in DOMAIN engines[r].hist :
                  engines[r].hist[k].state_hash =
                      Sha256Hex(C14_PreviousDigest(r, k) \o VectorsStr(Vectors)
                                    \o ModelSlice(C14_PreviousDigest(r, k), ModelData))
        /\ ~LoadModelOk =>
              /\ C13_NeverPrimes(r)
              /\ ~C14_Loaded(r)
              /\ engines[r].pc = "done" =>
                    /\ engines[r].state = "CRITICAL"
                    /\ ReportedReasons(RunMsgs(r)) = <<"CognitiveCoreMissing">>

\* a run without the blob file has ended, and the consumer has shown its end
C14_Witness ==
    \E r \in DOMAIN engines :
        /\ env.model_file.status = "missing"
        /\ env.lexicon_file.status = "ok"
        /\ engines[r].pc = "done"
        /\ engines[r].reason = "CognitiveCoreMissing"
        /\ display.status_labels.State = "CRITICAL"
        /\ display.initiate_button = FinishedButton

(***************************************************************************)
(* C15.  In every iteration each of the 5 agent values lies in [0, 1], the *)
(* noise term mix_q_values adds lies in [-0.05, +0.05], and the mixed      *)
(* total lies in [-0.05, 1.05]; and every value a hash prefix can take     *)
(* gives a scalar in [0, 1].                                               *)
(***************************************************************************)
C15_Between(lo, x, hi) == ~RLess(x, lo) /\ ~RLess(hi, x)

C15_TotalOf(values) == MixQValues(values, MixingWeights(NumAgents))

C15_ValuesInRange ==
    /\ \A p \in 0..PrefixMax : C15_Between(Rat(0, 1), UnitOfHash(<<48 + p>>), Rat(1, 1))
    /\ \A r \in DOMAIN engines :
          /\ \A k \in DOMAIN engines[r].hist :
                LET values == engines[r].hist[k].agent_q_values IN
                /\ Len(values) = NumAgents
                /\ \A a \in DOMAIN values : C15_Between(Rat(0, 1), values[a], Rat(1, 1))
                /\ C15_Between(Rat(-1, 20), MixNoise(values), Rat(1, 20))
                /\ C15_Between(Rat(-1, 20), C15_TotalOf(values), Rat(21, 20))
          /\ \A k \in DOMAIN IterationUpdates(RunMsgs(r)) :
                LET data == IterationUpdates(RunMsgs(r))[k].data IN
                /\ data.q_total = C15_TotalOf(engines[r].hist[k].agent_q_values)
                /\ C15_Between(Rat(-1, 20), data.q_total, Rat(21, 20))

\* an iteration whose noise is at an end of its band, with agent values 0 and 1
C15_Witness ==
    \E r \in DOMAIN engines : \E k \in DOMAIN engines[r].hist :
        LET values == engines[r].hist[k].agent_q_values IN
        /\ MixNoise(values) \in {Rat(-1, 20), Rat(1, 20)}
        /\ \E a \in DOMAIN values : values[a] = Rat(1, 1)
        /\ \E a \in DOMAIN values : values[a] = Rat(0, 1)

(***************************************************************************)
(* C16.  Every started run terminates: under fair scheduling of the worker *)
(* it eventually puts a "finished" message.  It puts exactly one per run,  *)
(* that message is the last one the run puts, and it is immediately        *)
(* preceded by the CRITICAL state update and then the fatal-reason log.    *)
(***************************************************************************)
C16_Finished(r) ==
    {k \in DOMAIN RunMsgs(r) : RunMsgs(r)[k].type = "finished"}

C16_FinishedIsLast ==
    \A r \in DOMAIN engines :
        LET msgs == RunMsgs(r)
            n    == Len(msgs)
        IN  /\ Cardinality(C16_Finished(r)) <= 1
            /\ engines[r].pc = "done" <=> C16_Finished(r) # {}
            /\ C16_Finished(r) # {} =>
                  /\ C16_Finished(r) = {n}
                  /\ n >= 3
                  /\ msgs[n - 2] = SetStateMsg("CRITICAL")
                  /\ msgs[n - 1] = Log("[FATAL] COGNITIVE BRIDGE COLLAPSED. REASON:",
                                       engines[r].reason, << >>)

\* again and again every run started so far has returned, which by
\* C16_FinishedIsLast is to have put "finished": a run once started stays started
\* and a run that returned stays so, so this says that each started run
\* eventually puts it
C16_RunEnds == []<>(\A r \in DOMAIN engines : engines[r].pc = "done")

C16_EveryRunTerminates == C16_RunEnds /\ []C16_FinishedIsLast

\* a run of MaxIter iterations has put its "finished" message
C16_Witness ==
    \E r \in DOMAIN engines :
        /\ engines[r].i = MaxIter
        /\ C16_Finished(r) # {}
        /\ engines[r].reason = ReasonTimeout

(***************************************************************************)
(* C17.  CRITICAL is terminal: once the engine of a run is in CRITICAL it  *)
(* never changes again and the run puts nothing more; handle_failure is    *)
(* executed at most once per run (one CRITICAL state update, one fatal     *)
(* log, one "finished"); and after the CRITICAL state update the run puts  *)
(* no further state update and no iteration dashboard update.              *)
(***************************************************************************)
\* the positions in msgs of the CRITICAL state updates, and of "finished"
C17_CriticalUpdates(msgs) ==
    {k \in DOMAIN msgs : /\ msgs[k].type = "dashboard_update"
                         /\ DOMAIN msgs[k].data = {"state"}
                         /\ msgs[k].data.state = "CRITICAL"}

C17_FinishedPuts(msgs) == {k \in DOMAIN msgs : msgs[k].type = "finished"}

C17_CriticalNeverLeft ==
    [][\A r \in DOMAIN engines :
          engines[r].state = "CRITICAL" =>
              /\ engines'[r] = engines[r]
              /\ RunMsgsIn(enqueued', r) = RunMsgs(r)]_vars

C17_HandleFailureOnce ==
    \A r \in DOMAIN engines :
        LET msgs     == RunMsgs(r)
            critical == C17_CriticalUpdates(msgs)
        IN  /\ Cardinality(critical) <= 1
            /\ Len(ReportedReasons(msgs)) <= 1
            /\ Cardinality(C17_FinishedPuts(msgs)) <= 1
            /\ engines[r].state = "CRITICAL" <=> critical # {}
            /\ \A k \in critical :
                   \A j \in DOMAIN msgs : j > k => msgs[j].type # "dashboard_update"

C17_CriticalIsTerminal == C17_CriticalNeverLeft /\ []C17_HandleFailureOnce

\* a run went CRITICAL after iterating and a later run has been started since
C17_Witness ==
    \E r \in DOMAIN engines :
        /\ engines[r].state = "CRITICAL"
        /\ engines[r].i >= 2
        /\ C17_CriticalUpdates(RunMsgs(r)) # {}
        /\ r < Len(engines)

(***************************************************************************)
(* C18.  As claimed: any exception raised at any point of the pipeline or  *)
(* of the loop is caught by run, and the run then ends in CRITICAL with    *)
(* reason 'UnhandledException' and puts "finished".  Refuted: the          *)
(* exceptions raised while the model, the lexicon or a missing seed file   *)
(* are read are handled where they are raised and end the run with a       *)
(* reason of their own.                                                    *)
(***************************************************************************)
\* the places of run r, once it has returned, where an exception was raised and
\* handled before the except clause of run: load_model's and load_lexicon's own
\* handlers, and the FileNotFoundError handler around the seed file
C18_HandledLocally(r) ==
    {site \in {"load_model", "load_lexicon", "seed_missing"} :
        \/ site = "load_model" /\ env.model_file.status = "unreadable"
        \/ site = "load_lexicon" /\ LoadModelOk /\ env.lexicon_file.status # "ok"
        \/ site = "seed_missing" /\ C14_Entered(r, "PRIMING")
                                 /\ env.seed_file.status = "missing"}

C18_ExceptionRaised(r) == C18_HandledLocally(r) # {} \/ C11_PanicCause(r) # ""

C18_EndedNotified(r) ==
    /\ engines[r].state = "CRITICAL"
    /\ C17_FinishedPuts(RunMsgs(r)) = {Len(RunMsgs(r))}

C18_AnyExceptionIsUnhandled ==
    \A r \in DOMAIN engines :
        engines[r].pc = "done" /\ C18_ExceptionRaised(r) =>
            /\ engines[r].reason = ReasonUnhandled
            /\ C18_EndedNotified(r)

(***************************************************************************)
(* C18, amended.  No exception escapes run: a run that returned is in      *)
(* CRITICAL and its last message is "finished".  An exception that         *)
(* propagates to the except clause of run (an undecodable seed file, a     *)
(* configuration key that cannot be read, a zero modulus in evaluate for a *)
(* blob of exactly the window size, a division by zero in                  *)
(* compute_fisher_diagonal on an empty lexicon) is logged as a kernel      *)
(* panic and ends the run with reason 'UnhandledException', and no other   *)
(* run has that reason.  An exception raised while the model or the        *)
(* lexicon is read is handled by the loader, and the run ends with         *)
(* 'CognitiveCoreMissing' or 'LexiconInitializationError'; a missing seed  *)
(* file ends it with 'MissingSeedError'.                                   *)
(***************************************************************************)
\* the first exception on the path of run r that nothing handles before the
\* except clause of run, from the files and the configuration alone; "" when the
\* run ends before any is raised
C18_FirstPropagating(r) ==
    IF env.model_file.status # "ok" \/ env.lexicon_file.status # "ok" THEN ""
    ELSE IF "complexity_factor" \in env.config.bad THEN "complexity_factor"
    ELSE IF env.seed_file.status = "missing" THEN ""
    ELSE IF env.seed_file.status = "undecodable" THEN "seed"
    ELSE IF "max_iterations" \in env.config.bad THEN "max_iterations"
    ELSE IF env.config.max_iterations = 0 THEN ""
    ELSE IF Len(env.model_file.data) = WindowLen THEN "evaluate"
    ELSE IF env.lexicon_file.symbols = << >> THEN "compute_fisher_diagonal"
    ELSE IF "coherence_min" \in env.config.bad THEN "coherence_min"
    ELSE IF "volatility_max" \in env.config.bad
    THEN IF CoherenceBelowFloor(engines[r].hist[1]) THEN "" ELSE "volatility_max"
    ELSE ""

C18_CaughtAndNotified ==
    \A r \in DOMAIN engines :
        IF engines[r].pc # "done"
        THEN C11_PanicCause(r) = "" /\ C17_FinishedPuts(RunMsgs(r)) = {}
        ELSE /\ C18_EndedNotified(r)
             /\ C11_PanicCause(r) = C18_FirstPropagating(r)
             /\ engines[r].reason = ReasonUnhandled <=> C11_PanicCause(r) # ""
             /\ "load_model" \in C18_HandledLocally(r) =>
                    engines[r].reason = "CognitiveCoreMissing"
             /\ "load_lexicon" \in C18_HandledLocally(r) =>
                    engines[r].reason = "LexiconInitializationError"
             /\ "seed_missing" \in C18_HandledLocally(r) =>
                    engines[r].reason = "MissingSeedError"

\* a run over an empty lexicon was ended by the division by zero and the consumer
\* has shown its end
C18_Witness ==
    \E r \in DOMAIN engines :
        /\ env.lexicon_file.symbols = << >>
        /\ C11_PanicCause(r) = "compute_fisher_diagonal"
        /\ engines[r].reason = ReasonUnhandled
        /\ engines[r].evals = 1
        /\ display.initiate_button = FinishedButton

(***************************************************************************)
(* C19.  Within one iteration the order is fixed.  The replay entry is     *)
(* appended and the iteration's dashboard update is put before any         *)
(* threshold is tested: every iteration that computed its values has put   *)
(* its update, with the replay buffer that already holds its entry, also   *)
(* the iteration that breached a threshold or whose threshold could not be *)
(* read.  The coherence test precedes the volatility test: an iteration    *)
(* that breaches both reports only the coherence collapse.  And the values *)
(* of the breaching iteration are put before the CRITICAL state update.    *)
(***************************************************************************)
\* the positions in msgs of the iteration dashboard updates, in order
C19_UpdatePositions(msgs) ==
    {k \in DOMAIN msgs : msgs[k].type = "dashboard_update" /\ "iter" \in DOMAIN msgs[k].data}

\* the update of iteration k of run r shows what that iteration computed
C19_UpdateShows(r, k) ==
    LET u == IterationUpdates(RunMsgs(r))[k].data
        h == engines[r].hist[k]
    IN  /\ u.iter = <<k, engines[r].max_iter>>
        /\ u.coh = h.coherence
        /\ u.vol = h.volatility
        /\ u.buffer # << >>
        /\ u.buffer[Len(u.buffer)] = h.memory

C19_UpdateBeforeTests ==
    \A r \in DOMAIN engines :
        LET msgs == RunMsgs(r)
            n    == Len(engines[r].hist)
        IN  /\ Len(IterationUpdates(msgs)) = n
            /\ \A k \in 1..n : C19_UpdateShows(r, k)
            /\ n > 0 => engines[r].replay_buffer[Len(engines[r].replay_buffer)]
                            = engines[r].hist[n].memory
            /\ \A c \in C17_CriticalUpdates(msgs) :
                   \A k \in C19_UpdatePositions(msgs) : k < c

C19_CoherenceTestedFirst ==
    \A r \in DOMAIN engines :
        LET e == engines[r]
            n == Len(e.hist)
        IN  /\ e.reason = ReasonCascade =>
                  /\ n > 0
                  /\ CoherenceBelowFloor(e.hist[n])
                  /\ ReportedReasons(RunMsgs(r)) = <<ReasonCascade>>
            /\ e.reason = ReasonDecoherence =>
                  /\ n > 0
                  /\ VolatilityAboveCeiling(e.hist[n])
                  /\ ~CoherenceBelowFloor(e.hist[n])
                  /\ ReportedReasons(RunMsgs(r)) = <<ReasonDecoherence>>
            /\ (/\ e.pc = "done"
                /\ n > 0
                /\ env.config.bad = {}
                /\ CoherenceBelowFloor(e.hist[n])
                /\ VolatilityAboveCeiling(e.hist[n])) => e.reason = ReasonCascade

C19_IterationOrder == C19_UpdateBeforeTests /\ C19_CoherenceTestedFirst

\* a run ended on an iteration that breached both thresholds
C19_Witness ==
    \E r \in DOMAIN engines :
        LET e == engines[r] IN
        /\ e.pc = "done"
        /\ e.hist # << >>
        /\ CoherenceBelowFloor(e.hist[Len(e.hist)])
        /\ VolatilityAboveCeiling(e.hist[Len(e.hist)])
        /\ e.reason = ReasonCascade
        /\ Len(IterationUpdates(RunMsgs(r))) = Len(e.hist)

(***************************************************************************)
(* C20.  For every loaded blob and every state digest, evaluate selects a  *)
(* window of exactly WindowLen bytes (1024 in the source) that lies wholly *)
(* inside the blob: 0 <= index and index + WindowLen <= blob size.         *)
(* Refuted for the blobs the loader accepts that are not longer than the   *)
(* window: for a blob of exactly the window size evaluate raises and       *)
(* selects nothing, for a shorter one the modulus is negative, the index   *)
(* is zero or negative and the window is shorter than WindowLen.           *)
(***************************************************************************)
\* the window evaluate selected in iteration k of run r is as claimed
C20_WindowAsClaimed(r, k) ==
    LET digest == C14_PreviousDigest(r, k)
        idx    == ModelReadIndex(digest, ModelData)
    IN  /\ 0 <= idx
        /\ idx + WindowLen <= Len(ModelData)
        /\ Len(ModelSlice(digest, ModelData)) = WindowLen

C20_WindowInsideBlob ==
    \A r \in DOMAIN engines :
        /\ C11_PanicCause(r) # "evaluate"
        /\ \A k \in 1..Len(engines[r].hist) : C20_WindowAsClaimed(r, k)

(***************************************************************************)
(* C21.  At most one process_queue polling callback is pending at any      *)
(* time: when the consumer has taken "finished" the polling stops until    *)
(* the next start_process, so that over any number of successive runs the  *)
(* number of pending timers never exceeds one.  Refuted: the finally       *)
(* clause of process_queue reschedules on the return of "finished" too, so *)
(* the polling never stops and every start_process adds one more timer.    *)
(***************************************************************************)
\* the consumer has shown the end of the last run started and no run is under way
C21_BetweenRuns ==
    /\ engines # << >>
    /\ display.initiate_button = FinishedButton
    /\ last_exit = "finished"

C21_AtMostOnePollingTimer ==
    /\ timers <= 1
    /\ C21_BetweenRuns => timers = 0

=============================================================================
